---- MODULE Spec2Model ----
(***************************************************************************)
(* Model of the flight reservation system (sistema_reserva_vuelos.py):     *)
(* the entities Pasajero, Vuelo, Reserva and the singleton GestorReservas. *)
(*                                                                         *)
(* Python strings are sequences of one-character strings, so that strip(), *)
(* title() and the regular expressions of the validators are computed and  *)
(* not assumed.  Objects are referred to by their position in the list     *)
(* that owns them (a Pasajero by its index in GestorReservas._pasajeros, a *)
(* Vuelo by its index in _vuelos, a Reserva by its index in the heap       *)
(* objReserva), which is the model of Python's references.                 *)
(*                                                                         *)
(* The sample flights of _inicializar_datos have capacities 80..200; the   *)
(* model keeps the first sample flights with capacities MaxCapacidad and   *)
(* 1, so that a full flight is reachable within the bounds.                *)
(***************************************************************************)
EXTENDS Integers, Sequences, FiniteSets, TLC

(***************************************************************************)
(* Bounds of the model.                                                    *)
(***************************************************************************)
\* longest passenger list the model lets agregar_pasajero build
MaxPasajeros == 3
\* number of Reserva objects the model lets crear_reserva create
MaxReservas == 3
\* capacidad_total of the first sample flight
MaxCapacidad == 2
\* changes a caller makes to a list it was returned before it asks for another
MaxMutaciones == 1

(***************************************************************************)
(* Program constants of the validators.                                    *)
(***************************************************************************)
MinLongitudNombre == 2
MinDigitosDocumento == 5
MaxDigitosDocumento == 12

(***************************************************************************)
(* Characters and the str methods the validators use.                      *)
(***************************************************************************)
Espacios == {" ", "\t", "\n"}

Digitos == {"0", "1", "2", "3", "4", "5", "6", "7", "8", "9"}

Minusculas ==
    <<"a", "b", "c", "d", "e", "f", "g", "h", "i", "j", "k", "l", "m",
      "n", "o", "p", "q", "r", "s", "t", "u", "v", "w", "x", "y", "z",
      "á", "é", "í", "ó", "ú", "ñ">>

Mayusculas ==
    <<"A", "B", "C", "D", "E", "F", "G", "H", "I", "J", "K", "L", "M",
      "N", "O", "P", "Q", "R", "S", "T", "U", "V", "W", "X", "Y", "Z",
      "Á", "É", "Í", "Ó", "Ú", "Ñ">>

Rango(f) == {f[i] : i \in DOMAIN f}

Letras == Rango(Minusculas) \cup Rango(Mayusculas)

Indice(tabla, c) == CHOOSE i \in DOMAIN tabla : tabla[i] = c

upper(c) ==
    IF c \in Rango(Minusculas) THEN Mayusculas[Indice(Minusculas, c)] ELSE c

lower(c) ==
    IF c \in Rango(Mayusculas) THEN Minusculas[Indice(Mayusculas, c)] ELSE c

RECURSIVE lstrip(_)
lstrip(s) ==
    IF s = <<>> THEN s
    ELSE IF Head(s) \in Espacios THEN lstrip(Tail(s)) ELSE s

RECURSIVE rstrip(_)
rstrip(s) ==
    IF s = <<>> THEN s
    ELSE IF s[Len(s)] \in Espacios THEN rstrip(SubSeq(s, 1, Len(s) - 1)) ELSE s

\* str.strip()
strip(s) == rstrip(lstrip(s))

\* str.title(): a letter that follows a letter is lowered, any other letter
\* is raised
title(s) ==
    [i \in 1..Len(s) |->
        IF i > 1 /\ s[i - 1] \in Letras THEN lower(s[i]) ELSE upper(s[i])]

(***************************************************************************)
(* Pasajero                                                                *)
(***************************************************************************)
\* A validator returns its value or raises ValueError.
Valor(v) == [exc |-> "ok", valor |-> v]

ValueError == [exc |-> "ValueError", valor |-> <<>>]

\* Pasajero._validar_nombre
validar_nombre(nombre) ==
    LET s == strip(nombre)
    IN  IF nombre = <<>> \/ s = <<>> THEN ValueError
        ELSE IF Len(s) < MinLongitudNombre THEN ValueError
        ELSE IF ~(\A i \in 1..Len(s) : s[i] \in Letras \cup Espacios)
        THEN ValueError
        ELSE Valor(title(s))

\* Pasajero._validar_documento
validar_documento(documento) ==
    IF documento = <<>> \/ strip(documento) = <<>> THEN ValueError
    ELSE LET d == strip(documento)
         IN  IF ~(/\ Len(d) >= MinDigitosDocumento
                  /\ Len(d) <= MaxDigitosDocumento
                  /\ \A i \in 1..Len(d) : d[i] \in Digitos) THEN ValueError
             ELSE Valor(d)

\* Pasajero.__init__: the three fields are validated in this order and the
\* first failure raises
Pasajero(nombre, apellido, documento) ==
    LET n == validar_nombre(nombre)
        a == validar_nombre(apellido)
        d == validar_documento(documento)
    IN  IF n.exc # "ok" THEN ValueError
        ELSE IF a.exc # "ok" THEN ValueError
        ELSE IF d.exc # "ok" THEN ValueError
        ELSE Valor([nombre |-> n.valor, apellido |-> a.valor, documento |-> d.valor])

(***************************************************************************)
(* Sample data and the inputs the model draws.                             *)
(***************************************************************************)
Doc12345678 == <<"1", "2", "3", "4", "5", "6", "7", "8">>

Doc87654321 == <<"8", "7", "6", "5", "4", "3", "2", "1">>

Doc11223344 == <<"1", "1", "2", "2", "3", "3", "4", "4">>

\* the first sample passengers of _inicializar_datos
pasajeros_data ==
    << <<(<<"J", "u", "a", "n">>), (<<"P", "e", "r", "e", "z">>), Doc12345678>>,
       <<(<<"M", "a", "r", "i", "a">>), (<<"G", "o", "m", "e", "z">>), Doc87654321>> >>

\* the first sample flights of _inicializar_datos: numero, capacidad
vuelos_data == << <<"V001", MaxCapacidad>>, <<"V002", 1>> >>

\* documents given to agregar_pasajero, the documento setter and crear_reserva
DocumentosEntrada ==
    { Doc12345678, Doc87654321, Doc11223344,
      <<" ">> \o Doc12345678,
      Doc87654321 \o <<" ">>,
      <<"1", "2", "3", "4">>,
      <<"1", "2", "a", "4", "5">>,
      <<" ">>,
      <<>> }

\* documents given to crear_reserva where the format of the document is not
\* what is looked at: the sample passengers' and one that is not registered
DocumentosReserva == {Doc12345678, Doc87654321, Doc11223344}

\* names given to agregar_pasajero
NombresEntrada ==
    { <<" ", "d", "e", " ", "l", "A", " ">>,
      <<"a", "1">>,
      <<>> }

\* flight numbers given to crear_reserva
NumerosEntrada == {vuelos_data[i][1] : i \in DOMAIN vuelos_data} \cup {"X999"}

(***************************************************************************)
(* State                                                                   *)
(***************************************************************************)
VARIABLES
    pasajeros,   \* GestorReservas._pasajeros: sequence of Pasajero
    vuelos,      \* GestorReservas._vuelos: sequence of Vuelo, each with its
                 \* _numero, _capacidad_total and _reservas (Reserva ids)
    reservas,    \* GestorReservas._reservas: sequence of Reserva ids
    objReserva,  \* the Reserva objects: id -> [vuelo, pasajero, estado]
    ultimo,      \* the last call made and the exception it raised ("ok": none)
    hilos,       \* per calling thread: where it stands inside crear_reserva
                 \* and the locals pasajero and vuelo of that call
    serializado, \* whether the callers serialize their calls (one at a time)
    cliente,     \* the list a caller holds, as returned by the last list query
    singleton,   \* GestorReservas._instance (0: None), its _initialized and
                 \* the object the last GestorReservas() returned
    vuelos_py    \* the module globals of the variant vuelos.py

vars ==
    <<pasajeros, vuelos, reservas, objReserva, ultimo, hilos, serializado, cliente,
      singleton, vuelos_py>>

\* the threads that call the registry
Hilos == {"h1", "h2"}

\* a thread that is in no call
Ocioso == [pc |-> "idle", args |-> <<>>, p |-> 0, v |-> 0, r |-> 0]

\* a caller that holds no list
SinLista == [origen |-> <<"ninguna">>, alias |-> FALSE, lista |-> <<>>, mutaciones |-> 0]

Llamada(op, args, exc) == [op |-> op, args |-> args, exc |-> exc]

\* GestorReservas._inicializar_datos, the passengers: a sample that fails
\* validation is skipped
RECURSIVE SembrarPasajeros(_, _)
SembrarPasajeros(datos, lista) ==
    IF datos = <<>> THEN lista
    ELSE LET p == Pasajero(Head(datos)[1], Head(datos)[2], Head(datos)[3])
         IN  SembrarPasajeros(Tail(datos),
                 IF p.exc = "ok" THEN Append(lista, p.valor) ELSE lista)

\* GestorReservas._inicializar_datos, the flights
SembrarVuelos ==
    [i \in DOMAIN vuelos_data |->
        [numero |-> vuelos_data[i][1],
         capacidad_total |-> vuelos_data[i][2],
         reservas |-> <<>>]]

\* vuelos.py: the names of the first sample passengers (lines 25-26)
pasajeros_py == <<"Juan", "Maria">>

\* vuelos.py: the sample flights, numero and capacidad (lines 37-41)
vuelos_py_data == << <<"V001", 2>>, <<"V002", 3>>, <<"V003", 1>> >>

\* vuelos.py: the module globals vuelos and reservas once the module is
\* loaded, the text of the two comboboxes and the text of mensaje_label
InitVuelosPy ==
    [vuelos   |-> [i \in DOMAIN vuelos_py_data |->
                      [numero |-> vuelos_py_data[i][1],
                       capacidad |-> vuelos_py_data[i][2],
                       reservas |-> <<>>]],
     reservas |-> <<>>,
     pasajero_combobox |-> "",
     vuelo_combobox |-> "",
     mensaje  |-> <<"">>]

\* GestorReservas._instance once GestorReservas() has run: the object 1,
\* initialized
Construido == [instance |-> 1, initialized |-> TRUE, devuelto |-> 1]

\* GestorReservas.__init__ with _inicializar_datos
InitRegistro ==
    /\ pasajeros = SembrarPasajeros(pasajeros_data, <<>>)
    /\ vuelos = SembrarVuelos
    /\ singleton = Construido
    /\ vuelos_py = InitVuelosPy
    /\ reservas = <<>>
    /\ objReserva = <<>>
    /\ ultimo = Llamada("init", <<>>, "ok")
    /\ hilos = [h \in Hilos |-> Ocioso]
    /\ cliente = SinLista

\* the registry used as section 5 of the specification asks: one call at a time
Init == InitRegistro /\ serializado = TRUE

(***************************************************************************)
(* GestorReservas: passengers                                              *)
(***************************************************************************)
\* the loop of agregar_pasajero: some stored passenger has exactly this
\* document string
ExisteDocumento(documento) ==
    \E i \in DOMAIN pasajeros : pasajeros[i].documento = documento

\* agregar_pasajero building the Pasajero before it looks for the document
agregar_pasajero_valida_primero(nombre, apellido, documento) ==
    IF Pasajero(nombre, apellido, documento).exc # "ok" THEN ValueError
    ELSE IF ExisteDocumento(documento)
    THEN [exc |-> "DocumentoDuplicado", valor |-> <<>>]
    ELSE Pasajero(nombre, apellido, documento)

\* GestorReservas.agregar_pasajero: the new Pasajero or the exception raised
agregar_pasajero(nombre, apellido, documento) ==
    IF ExisteDocumento(documento)
    THEN [exc |-> "DocumentoDuplicado", valor |-> <<>>]
    ELSE Pasajero(nombre, apellido, documento)

AgregarPasajero(nombre, apellido, documento) ==
    /\ LET r == agregar_pasajero(nombre, apellido, documento)
       IN  /\ r.exc = "ok" => Len(pasajeros) < MaxPasajeros
           /\ pasajeros' =
                 IF r.exc = "ok" THEN Append(pasajeros, r.valor) ELSE pasajeros
           /\ ultimo' = Llamada("agregar_pasajero", <<nombre, apellido, documento>>, r.exc)
    /\ UNCHANGED <<vuelos, reservas, objReserva, hilos, serializado, cliente, singleton, vuelos_py>>

\* Pasajero.documento setter on the registered passenger p
SetDocumento(p, valor) ==
    /\ p \in DOMAIN pasajeros
    /\ LET r == validar_documento(valor)
       IN  /\ pasajeros' =
                 IF r.exc = "ok"
                 THEN [pasajeros EXCEPT ![p].documento = r.valor]
                 ELSE pasajeros
           /\ ultimo' = Llamada("documento.setter", <<p, valor>>, r.exc)
    /\ UNCHANGED <<vuelos, reservas, objReserva, hilos, serializado, cliente, singleton, vuelos_py>>

\* values given to the nombre and apellido setters: NombresEntrada, a plain
\* name, a one-letter name and a blank one
NombresSetter ==
    NombresEntrada \cup { <<"A", "n", "a">>, <<" ", "x", " ">>, <<" ", " ">> }

\* a nombre setter that assigns before it validates
nombre_setter_asigna_antes(pas, valor) ==
    [exc |-> validar_nombre(valor).exc, pasajero |-> [pas EXCEPT !.nombre = valor]]

\* Pasajero.nombre setter: self._nombre = self._validar_nombre(valor)
nombre_setter(pas, valor) ==
    LET r == validar_nombre(valor)
    IN  [exc |-> r.exc,
         pasajero |-> IF r.exc = "ok" THEN [pas EXCEPT !.nombre = r.valor] ELSE pas]

\* Pasajero.apellido setter: self._apellido = self._validar_nombre(valor)
apellido_setter(pas, valor) ==
    LET r == validar_nombre(valor)
    IN  [exc |-> r.exc,
         pasajero |-> IF r.exc = "ok" THEN [pas EXCEPT !.apellido = r.valor] ELSE pas]

\* Pasajero.nombre setter on the registered passenger p
SetNombre(p, valor) ==
    /\ p \in DOMAIN pasajeros
    /\ LET r == nombre_setter(pasajeros[p], valor)
       IN  /\ pasajeros' = [pasajeros EXCEPT ![p] = r.pasajero]
           /\ ultimo' = Llamada("nombre.setter", <<p, valor>>, r.exc)
    /\ UNCHANGED <<vuelos, reservas, objReserva, hilos, serializado, cliente, singleton, vuelos_py>>

\* Pasajero.apellido setter on the registered passenger p
SetApellido(p, valor) ==
    /\ p \in DOMAIN pasajeros
    /\ LET r == apellido_setter(pasajeros[p], valor)
       IN  /\ pasajeros' = [pasajeros EXCEPT ![p] = r.pasajero]
           /\ ultimo' = Llamada("apellido.setter", <<p, valor>>, r.exc)
    /\ UNCHANGED <<vuelos, reservas, objReserva, hilos, serializado, cliente, singleton, vuelos_py>>

(***************************************************************************)
(* Vuelo and Reserva                                                       *)
(***************************************************************************)
\* capacidad_disponible with its filter inverted: it counts the reservations
\* that are not active
capacidad_disponible_inactivas(v) ==
    LET reservas_inactivas ==
            SelectSeq(vuelos[v].reservas, LAMBDA r : objReserva[r].estado # "activa")
    IN  vuelos[v].capacidad_total - Len(reservas_inactivas)

\* Vuelo.capacidad_disponible: computed from the list at every call
capacidad_disponible(v) ==
    LET reservas_activas ==
            SelectSeq(vuelos[v].reservas, LAMBDA r : objReserva[r].estado = "activa")
    IN  vuelos[v].capacidad_total - Len(reservas_activas)

\* Pasajero.__eq__ on the passengers p and q
PasajeroEq(p, q) == pasajeros[p].documento = pasajeros[q].documento

\* the loop of agregar_reserva without its test of the state
TieneReservaActiva_sin_estado(v, p) ==
    \E i \in DOMAIN vuelos[v].reservas :
        PasajeroEq(objReserva[vuelos[v].reservas[i]].pasajero, p)

\* the loop of Vuelo.agregar_reserva: flight v holds an active reservation
\* of a passenger equal to p
TieneReservaActiva(v, p) ==
    \E i \in DOMAIN vuelos[v].reservas :
        /\ PasajeroEq(objReserva[vuelos[v].reservas[i]].pasajero, p)
        /\ objReserva[vuelos[v].reservas[i]].estado = "activa"

\* agregar_reserva without its capacity check
agregar_reserva_sin_capacidad(v, p) ==
    IF TieneReservaActiva(v, p) THEN "ReservaDuplicada" ELSE "ok"

\* agregar_reserva without its loop over the reservations of the flight
agregar_reserva_sin_duplicado(v, p) ==
    IF capacidad_disponible(v) <= 0 THEN "SinCapacidad" ELSE "ok"

\* agregar_reserva with the capacity test off by one (< 0 for <= 0)
agregar_reserva_capacidad_estricta(v, p) ==
    IF capacidad_disponible(v) < 0 THEN "SinCapacidad"
    ELSE IF TieneReservaActiva(v, p) THEN "ReservaDuplicada"
    ELSE "ok"

\* Vuelo.agregar_reserva for a new reservation of passenger p: the exception
\* it raises, "ok" if it appends
agregar_reserva_exc(v, p) ==
    IF capacidad_disponible(v) <= 0 THEN "SinCapacidad"
    ELSE IF TieneReservaActiva(v, p) THEN "ReservaDuplicada"
    ELSE "ok"

\* agregar_reserva putting the reservation at the head of the list
lista_tras_agregar_al_inicio(lista, id) == <<id>> \o lista

\* Vuelo.agregar_reserva, line 183: self._reservas.append(reserva)
lista_tras_agregar(lista, id) == Append(lista, id)

\* cancelar and completar without their test of the state
transicion_sin_guarda(r) == "ok"

\* Reserva.cancelar and Reserva.completar: the exception raised, "ok" if none
transicion_exc(r) ==
    IF objReserva[r].estado # "activa" THEN "EstadoInvalido" ELSE "ok"

(***************************************************************************)
(* GestorReservas: reservations                                            *)
(***************************************************************************)
\* GestorReservas.buscar_pasajero_por_documento: the first passenger with
\* this document, 0 for None
buscar_pasajero_por_documento(documento) ==
    IF ExisteDocumento(documento)
    THEN CHOOSE i \in DOMAIN pasajeros :
            /\ pasajeros[i].documento = documento
            /\ \A j \in 1..(i - 1) : pasajeros[j].documento # documento
    ELSE 0

\* GestorReservas.buscar_vuelo_por_numero: the first flight with this
\* number, 0 for None
buscar_vuelo_por_numero(numero) ==
    IF \E i \in DOMAIN vuelos : vuelos[i].numero = numero
    THEN CHOOSE i \in DOMAIN vuelos :
            /\ vuelos[i].numero = numero
            /\ \A j \in 1..(i - 1) : vuelos[j].numero # numero
    ELSE 0

\* crear_reserva looking the flight up before the passenger
crear_reserva_vuelo_primero(numero_vuelo, documento_pasajero) ==
    IF buscar_vuelo_por_numero(numero_vuelo) = 0
    THEN "VueloNoEncontrado"
    ELSE IF buscar_pasajero_por_documento(documento_pasajero) = 0
    THEN "PasajeroNoEncontrado"
    ELSE agregar_reserva_exc(buscar_vuelo_por_numero(numero_vuelo),
                             buscar_pasajero_por_documento(documento_pasajero))

\* GestorReservas.crear_reserva: the exception it raises, "ok" if none
crear_reserva_exc(numero_vuelo, documento_pasajero) ==
    IF buscar_pasajero_por_documento(documento_pasajero) = 0
    THEN "PasajeroNoEncontrado"
    ELSE IF buscar_vuelo_por_numero(numero_vuelo) = 0
    THEN "VueloNoEncontrado"
    ELSE agregar_reserva_exc(buscar_vuelo_por_numero(numero_vuelo),
                             buscar_pasajero_por_documento(documento_pasajero))

\* Reserva.__init__
Reserva(v, p) == [vuelo |-> v, pasajero |-> p, estado |-> "activa"]

\* crear_reserva appending to the history before Vuelo.agregar_reserva ran
historial_tras_crear_antes(exc, id) ==
    IF exc \in {"ok", "SinCapacidad", "ReservaDuplicada"}
    THEN Append(reservas, id)
    ELSE reservas

\* GestorReservas._reservas after crear_reserva raised exc or, with "ok",
\* appended the Reserva id
historial_tras_crear(exc, id) ==
    IF exc = "ok" THEN Append(reservas, id) ELSE reservas

\* GestorReservas.crear_reserva
CrearReserva(numero_vuelo, documento_pasajero) ==
    LET exc == crear_reserva_exc(numero_vuelo, documento_pasajero)
        p   == buscar_pasajero_por_documento(documento_pasajero)
        v   == buscar_vuelo_por_numero(numero_vuelo)
        id  == Len(objReserva) + 1
    IN  /\ exc = "ok" => Len(objReserva) < MaxReservas
        /\ IF exc = "ok"
           THEN /\ objReserva' = Append(objReserva, Reserva(v, p))
                /\ vuelos' = [vuelos EXCEPT ![v].reservas = lista_tras_agregar(@, id)]
           ELSE UNCHANGED <<objReserva, vuelos>>
        /\ reservas' = historial_tras_crear(exc, id)
        /\ ultimo' = Llamada("crear_reserva", <<numero_vuelo, documento_pasajero>>, exc)
        /\ UNCHANGED <<pasajeros, hilos, serializado, cliente, singleton, vuelos_py>>

\* Reserva.cancelar on the Reserva r
Cancelar(r) ==
    /\ r \in DOMAIN objReserva
    /\ objReserva' =
          IF transicion_exc(r) = "ok"
          THEN [objReserva EXCEPT ![r].estado = "cancelada"]
          ELSE objReserva
    /\ ultimo' = Llamada("cancelar", <<r>>, transicion_exc(r))
    /\ UNCHANGED <<pasajeros, vuelos, reservas, hilos, serializado, cliente, singleton, vuelos_py>>

\* Reserva.completar on the Reserva r
Completar(r) ==
    /\ r \in DOMAIN objReserva
    /\ objReserva' =
          IF transicion_exc(r) = "ok"
          THEN [objReserva EXCEPT ![r].estado = "completada"]
          ELSE objReserva
    /\ ultimo' = Llamada("completar", <<r>>, transicion_exc(r))
    /\ UNCHANGED <<pasajeros, vuelos, reservas, hilos, serializado, cliente, singleton, vuelos_py>>

(***************************************************************************)
(* crear_reserva called from several threads: the interpreter may switch   *)
(* threads between any two of its statements.  A thread h goes through     *)
(* "capacidad" (line 174), "duplicado" (lines 178-181), "append" (line     *)
(* 183) and "historial" (line 346); the fields p, v and r of the thread    *)
(* are the locals pasajero, vuelo and reserva of its call.                 *)
(***************************************************************************)
EnLlamada == {h \in Hilos : hilos[h].pc # "idle"}

\* the exception ends the call of thread h
Lanzar(h, exc) ==
    /\ hilos' = [hilos EXCEPT ![h] = Ocioso]
    /\ ultimo' = Llamada("crear_reserva", hilos[h].args, exc)

\* crear_reserva, lines 336-344: the two lookups and Reserva(vuelo, pasajero)
IniciarReserva(h, numero_vuelo, documento_pasajero) ==
    LET p == buscar_pasajero_por_documento(documento_pasajero)
        v == buscar_vuelo_por_numero(numero_vuelo)
    IN  /\ hilos[h].pc = "idle"
        /\ serializado => EnLlamada = {}
        /\ (p # 0 /\ v # 0) => Len(objReserva) + Cardinality(EnLlamada) < MaxReservas
        /\ IF p = 0 \/ v = 0
           THEN /\ ultimo' = Llamada("crear_reserva",
                                     <<numero_vuelo, documento_pasajero>>,
                                     IF p = 0 THEN "PasajeroNoEncontrado"
                                              ELSE "VueloNoEncontrado")
                /\ UNCHANGED hilos
           ELSE /\ hilos' = [hilos EXCEPT ![h] =
                                [pc |-> "capacidad",
                                 args |-> <<numero_vuelo, documento_pasajero>>,
                                 p |-> p, v |-> v, r |-> 0]]
                /\ UNCHANGED ultimo
        /\ UNCHANGED <<pasajeros, vuelos, reservas, objReserva, serializado, cliente, singleton, vuelos_py>>

\* agregar_reserva, lines 174-175
VerificarCapacidad(h) ==
    /\ hilos[h].pc = "capacidad"
    /\ IF capacidad_disponible(hilos[h].v) <= 0
       THEN Lanzar(h, "SinCapacidad")
       ELSE /\ hilos' = [hilos EXCEPT ![h].pc = "duplicado"]
            /\ UNCHANGED ultimo
    /\ UNCHANGED <<pasajeros, vuelos, reservas, objReserva, serializado, cliente, singleton, vuelos_py>>

\* agregar_reserva, lines 178-181
VerificarDuplicado(h) ==
    /\ hilos[h].pc = "duplicado"
    /\ IF TieneReservaActiva(hilos[h].v, hilos[h].p)
       THEN Lanzar(h, "ReservaDuplicada")
       ELSE /\ hilos' = [hilos EXCEPT ![h].pc = "append"]
            /\ UNCHANGED ultimo
    /\ UNCHANGED <<pasajeros, vuelos, reservas, objReserva, serializado, cliente, singleton, vuelos_py>>

\* agregar_reserva, line 183
AgregarALista(h) ==
    /\ hilos[h].pc = "append"
    /\ objReserva' = Append(objReserva, Reserva(hilos[h].v, hilos[h].p))
    /\ vuelos' = [vuelos EXCEPT ![hilos[h].v].reservas = lista_tras_agregar(@, Len(objReserva) + 1)]
    /\ hilos' = [hilos EXCEPT ![h].pc = "historial", ![h].r = Len(objReserva) + 1]
    /\ UNCHANGED <<pasajeros, reservas, ultimo, serializado, cliente, singleton, vuelos_py>>

\* crear_reserva, lines 346-348
AgregarAHistorial(h) ==
    /\ hilos[h].pc = "historial"
    /\ reservas' = Append(reservas, hilos[h].r)
    /\ hilos' = [hilos EXCEPT ![h] = Ocioso]
    /\ ultimo' = Llamada("crear_reserva", hilos[h].args, "ok")
    /\ UNCHANGED <<pasajeros, vuelos, objReserva, serializado, cliente, singleton, vuelos_py>>

(***************************************************************************)
(* Queries, and a caller changing the list a query returned.  A list       *)
(* object is modelled by its elements (references: positions of Pasajero   *)
(* and Vuelo, ids of Reserva) and by alias: whether it is the very list    *)
(* the registry or the flight holds, in which case a change through it is  *)
(* a change of that list.                                                  *)
(***************************************************************************)
Referencias(lista) == [i \in 1..Len(lista) |-> i]

\* the list itself handed out instead of a copy
la_misma_lista(origen, lista) ==
    [origen |-> origen, alias |-> TRUE, lista |-> lista, mutaciones |-> 0]

\* list.copy(): a new list with the same elements
copia(origen, lista) ==
    [origen |-> origen, alias |-> FALSE, lista |-> lista, mutaciones |-> 0]

Consulta(op, args) ==
    /\ ultimo' = Llamada(op, args, "ok")
    /\ UNCHANGED <<pasajeros, vuelos, reservas, objReserva, hilos, serializado, singleton, vuelos_py>>

\* GestorReservas.obtener_pasajeros
ObtenerPasajeros ==
    /\ cliente' = copia(<<"pasajeros">>, Referencias(pasajeros))
    /\ Consulta("obtener_pasajeros", <<>>)

\* GestorReservas.obtener_vuelos
ObtenerVuelos ==
    /\ cliente' = copia(<<"vuelos">>, Referencias(vuelos))
    /\ Consulta("obtener_vuelos", <<>>)

\* GestorReservas.obtener_reservas
ObtenerReservas ==
    /\ cliente' = copia(<<"reservas">>, reservas)
    /\ Consulta("obtener_reservas", <<>>)

\* Vuelo.reservas (getter) of flight v
VueloReservas(v) ==
    /\ v \in DOMAIN vuelos
    /\ cliente' = copia(<<"vuelo", v>>, vuelos[v].reservas)
    /\ Consulta("vuelo.reservas", <<v>>)

\* GestorReservas.buscar_pasajero_por_documento
BuscarPasajero(documento) ==
    /\ Consulta("buscar_pasajero_por_documento", <<documento>>)
    /\ UNCHANGED cliente

\* GestorReservas.buscar_vuelo_por_numero
BuscarVuelo(numero) ==
    /\ Consulta("buscar_vuelo_por_numero", <<numero>>)
    /\ UNCHANGED cliente

\* Vuelo.capacidad_disponible (getter) of flight v
CapacidadDisponible(v) ==
    /\ v \in DOMAIN vuelos
    /\ Consulta("vuelo.capacidad_disponible", <<v>>)
    /\ UNCHANGED cliente

\* list.append of an element the list holds, list.pop and list.reverse
Mutar(lista, m) ==
    CASE m = "append"  -> Append(lista, Head(lista))
      [] m = "pop"     -> SubSeq(lista, 1, Len(lista) - 1)
      [] m = "reverse" -> [i \in 1..Len(lista) |-> lista[Len(lista) + 1 - i]]

\* the caller changes the list it holds
ClienteMuta(m) ==
    LET nueva == Mutar(cliente.lista, m)
    IN  /\ cliente.origen # <<"ninguna">>
        /\ cliente.lista # <<>>
        /\ cliente.mutaciones < MaxMutaciones
        /\ cliente' = [cliente EXCEPT !.lista = nueva, !.mutaciones = @ + 1]
        /\ pasajeros' =
              IF cliente.alias /\ cliente.origen = <<"pasajeros">>
              THEN [i \in 1..Len(nueva) |-> pasajeros[nueva[i]]]
              ELSE pasajeros
        /\ vuelos' =
              IF cliente.alias /\ cliente.origen = <<"vuelos">>
              THEN [i \in 1..Len(nueva) |-> vuelos[nueva[i]]]
              ELSE IF cliente.alias /\ cliente.origen[1] = "vuelo"
              THEN [vuelos EXCEPT ![cliente.origen[2]].reservas = nueva]
              ELSE vuelos
        /\ reservas' =
              IF cliente.alias /\ cliente.origen = <<"reservas">>
              THEN nueva
              ELSE reservas
        /\ UNCHANGED <<objReserva, ultimo, hilos, serializado, singleton, vuelos_py>>

(***************************************************************************)
(* GestorReservas as a singleton: __new__ and __init__                     *)
(***************************************************************************)
\* the class before the first GestorReservas(): _instance = None
SinInstancia == [instance |-> 0, initialized |-> FALSE, devuelto |-> 0]

\* GestorReservas.__new__: the class attributes after it; it returns
\* cls._instance
GestorReservas_new(s) ==
    IF s.instance = 0
    THEN [s EXCEPT !.instance = 1, !.initialized = FALSE]
    ELSE s

\* __init__ running its body whatever _initialized is
debe_inicializar_siempre(s) == TRUE

\* GestorReservas.__init__, line 251: the body runs if not self._initialized
debe_inicializar(s) == ~s.initialized

\* GestorReservas(): __new__, then __init__ on the object it returned
Construir ==
    LET s == GestorReservas_new(singleton)
    IN  /\ IF debe_inicializar(s)
           THEN /\ pasajeros' = SembrarPasajeros(pasajeros_data, <<>>)
                /\ vuelos' = SembrarVuelos
                /\ reservas' = <<>>
                /\ objReserva' = <<>>
           ELSE UNCHANGED <<pasajeros, vuelos, reservas, objReserva>>
        /\ singleton' = [s EXCEPT !.initialized = TRUE, !.devuelto = s.instance]
        /\ ultimo' = Llamada("GestorReservas", <<>>, "ok")
        /\ UNCHANGED <<hilos, serializado, cliente, vuelos_py>>

(***************************************************************************)
(* vuelos.py: InterfazGrafica.hacer_reserva                                *)
(***************************************************************************)
\* texts of pasajero_combobox: the names of the list and one that is not
NombresCombobox == {pasajeros_py[i] : i \in DOMAIN pasajeros_py} \cup {"Nadie"}

\* texts of vuelo_combobox: the numbers of the list and one that is not
NumerosCombobox == {vuelos_py_data[i][1] : i \in DOMAIN vuelos_py_data} \cup {"X999"}

\* next((p for p in pasajeros if p.nombre == nombre_pasajero), None): the
\* index of the first passenger of that name, 0 for None
pasajero_py(nombre_pasajero) ==
    IF \E i \in DOMAIN pasajeros_py : pasajeros_py[i] = nombre_pasajero
    THEN CHOOSE i \in DOMAIN pasajeros_py :
            /\ pasajeros_py[i] = nombre_pasajero
            /\ \A j \in 1..(i - 1) : pasajeros_py[j] # nombre_pasajero
    ELSE 0

\* next((v for v in vuelos if v.numero == numero_vuelo), None)
vuelo_py(numero_vuelo) ==
    IF \E i \in DOMAIN vuelos_py.vuelos : vuelos_py.vuelos[i].numero = numero_vuelo
    THEN CHOOSE i \in DOMAIN vuelos_py.vuelos :
            /\ vuelos_py.vuelos[i].numero = numero_vuelo
            /\ \A j \in 1..(i - 1) : vuelos_py.vuelos[j].numero # numero_vuelo
    ELSE 0

\* hacer_reserva testing the counter with >= 0
hay_capacidad_con_cero(vuelo) == vuelo.capacidad >= 0

\* hacer_reserva, line 101: if vuelo.capacidad > 0
hay_capacidad(vuelo) == vuelo.capacidad > 0

\* vuelos.py Reserva.__init__; id tells the objects apart
Reserva_py(id, v, p) == [id |-> id, vuelo |-> v, pasajero |-> p]

\* the user sets the text of pasajero_combobox
SeleccionarPasajero(nombre) ==
    /\ vuelos_py' = [vuelos_py EXCEPT !.pasajero_combobox = nombre]
    /\ UNCHANGED <<pasajeros, vuelos, reservas, objReserva, ultimo, hilos,
                   serializado, cliente, singleton>>

\* the user sets the text of vuelo_combobox
SeleccionarVuelo(numero) ==
    /\ vuelos_py' = [vuelos_py EXCEPT !.vuelo_combobox = numero]
    /\ UNCHANGED <<pasajeros, vuelos, reservas, objReserva, ultimo, hilos,
                   serializado, cliente, singleton>>

\* InterfazGrafica.hacer_reserva
HacerReserva ==
    LET p == pasajero_py(vuelos_py.pasajero_combobox)
        v == vuelo_py(vuelos_py.vuelo_combobox)
        reserva == Reserva_py(Len(vuelos_py.reservas) + 1, v, p)
    IN  /\ vuelos_py' =
              IF p # 0 /\ v # 0
              THEN IF hay_capacidad(vuelos_py.vuelos[v])
                   THEN [vuelos_py EXCEPT
                            !.vuelos[v].reservas = Append(@, reserva),
                            !.vuelos[v].capacidad = @ - 1,
                            !.reservas = Append(@, reserva),
                            !.mensaje = <<"Reserva realizada con exito", p, v>>]
                   ELSE [vuelos_py EXCEPT !.mensaje = <<"No hay capacidad disponible">>]
              ELSE [vuelos_py EXCEPT !.mensaje = <<"Pasajero o vuelo no encontrado">>]
        /\ UNCHANGED <<pasajeros, vuelos, reservas, objReserva, ultimo, hilos,
                       serializado, cliente, singleton>>

(***************************************************************************)
(* Specifications                                                          *)
(***************************************************************************)
\* calls on the passengers only
NextPasajeros ==
    \/ \E n \in NombresEntrada, a \in NombresEntrada, d \in DocumentosEntrada :
          AgregarPasajero(n, a, d)
    \/ \E p \in 1..MaxPasajeros, d \in DocumentosEntrada : SetDocumento(p, d)

SpecPasajeros == Init /\ [][NextPasajeros]_vars

\* the three setters on the passengers of the seeded registry
NextSetters ==
    \/ \E p \in 1..MaxPasajeros, valor \in NombresSetter : SetNombre(p, valor)
    \/ \E p \in 1..MaxPasajeros, valor \in NombresSetter : SetApellido(p, valor)
    \/ \E p \in 1..MaxPasajeros, valor \in DocumentosEntrada : SetDocumento(p, valor)

SpecSetters == Init /\ [][NextSetters]_vars

\* vuelos.py: the user picks a passenger and a flight and presses the button
NextVuelosPy ==
    \/ \E nombre \in NombresCombobox : SeleccionarPasajero(nombre)
    \/ \E numero \in NumerosCombobox : SeleccionarVuelo(numero)
    \/ HacerReserva

SpecVuelosPy == Init /\ [][NextVuelosPy]_vars

\* crear_reserva, cancelar and completar on the seeded registry
NextReservas ==
    \/ \E n \in NumerosEntrada, d \in DocumentosEntrada : CrearReserva(n, d)
    \/ \E r \in 1..MaxReservas : Cancelar(r)
    \/ \E r \in 1..MaxReservas : Completar(r)

SpecReservas == Init /\ [][NextReservas]_vars

\* queries and changes of the returned lists, among crear_reserva calls
NextConsultas ==
    \/ \E n \in NumerosEntrada, d \in DocumentosReserva : CrearReserva(n, d)
    \/ ObtenerPasajeros
    \/ ObtenerVuelos
    \/ ObtenerReservas
    \/ \E v \in DOMAIN vuelos_data : VueloReservas(v)
    \/ \E d \in DocumentosReserva : BuscarPasajero(d)
    \/ \E n \in NumerosEntrada : BuscarVuelo(n)
    \/ \E v \in DOMAIN vuelos_data : CapacidadDisponible(v)
    \/ \E m \in {"append", "pop", "reverse"} : ClienteMuta(m)

SpecConsultas == Init /\ [][NextConsultas]_vars

\* the process from the definition of the class: GestorReservas() any number
\* of times, and agregar_pasajero and crear_reserva on the instance
InitClase ==
    /\ singleton = SinInstancia
    /\ pasajeros = <<>>
    /\ vuelos = <<>>
    /\ reservas = <<>>
    /\ objReserva = <<>>
    /\ ultimo = Llamada("class", <<>>, "ok")
    /\ hilos = [h \in Hilos |-> Ocioso]
    /\ serializado = TRUE
    /\ cliente = SinLista
    /\ vuelos_py = InitVuelosPy

NextSingleton ==
    \/ Construir
    \/ \E n \in NombresEntrada, a \in NombresEntrada, d \in DocumentosReserva :
          singleton.instance # 0 /\ AgregarPasajero(n, a, d)
    \/ \E n \in NumerosEntrada, d \in DocumentosReserva :
          singleton.instance # 0 /\ CrearReserva(n, d)

SpecSingleton == InitClase /\ [][NextSingleton]_vars

\* crear_reserva from two threads, by callers that serialize their calls or
\* by callers that do not; cancelar is taken as one step (its test and its
\* assignment touch one Reserva only)
InitConcurrente == InitRegistro /\ serializado \in BOOLEAN

NextConcurrente ==
    \/ \E h \in Hilos, n \in NumerosEntrada, d \in DocumentosReserva :
          IniciarReserva(h, n, d)
    \/ \E h \in Hilos : VerificarCapacidad(h)
    \/ \E h \in Hilos : VerificarDuplicado(h)
    \/ \E h \in Hilos : AgregarALista(h)
    \/ \E h \in Hilos : AgregarAHistorial(h)
    \/ \E r \in 1..MaxReservas : (serializado => EnLlamada = {}) /\ Cancelar(r)

SpecConcurrente == InitConcurrente /\ [][NextConcurrente]_vars

(***************************************************************************)
(* Properties                                                              *)
(***************************************************************************)
\* number of active reservations in the list of flight v
ActivasEn(v) ==
    Cardinality({i \in DOMAIN vuelos[v].reservas :
                    objReserva[vuelos[v].reservas[i]].estado = "activa"})

\* positions in the list of flight v of the active reservations whose
\* passenger has document d
ActivasDe(v, d) ==
    {i \in DOMAIN vuelos[v].reservas :
        /\ objReserva[vuelos[v].reservas[i]].estado = "activa"
        /\ pasajeros[objReserva[vuelos[v].reservas[i]].pasajero].documento = d}

DocumentosRegistrados == {pasajeros[i].documento : i \in DOMAIN pasajeros}

\* the last call was op and raised exc
Ultimo(op, exc) == ultimo.op = op /\ ultimo.exc = exc

\* C1: after any crear_reserva, cancelar and completar calls every flight has
\* capacidad_disponible = capacidad_total - (active reservations in its list)
\* and capacidad_disponible >= 0.
C1_CapacidadDisponible ==
    \A v \in DOMAIN vuelos :
        /\ capacidad_disponible(v) = vuelos[v].capacidad_total - ActivasEn(v)
        /\ capacidad_disponible(v) >= 0

\* a full flight whose list is longer than its capacity: seats were freed
\* and taken again
C1_Witness ==
    \E v \in DOMAIN vuelos :
        /\ capacidad_disponible(v) = 0
        /\ Len(vuelos[v].reservas) > vuelos[v].capacidad_total
        /\ Ultimo("crear_reserva", "ok")

\* C2: after any crear_reserva, cancelar and completar calls a flight holds at
\* most one active reservation per passenger document.
C2_UnaActivaPorPar ==
    \A v \in DOMAIN vuelos : \A d \in DocumentosRegistrados :
        Cardinality(ActivasDe(v, d)) <= 1

\* a passenger booked again on a flight after a cancellation: two
\* reservations of the pair, one of them active
C2_Witness ==
    \E v \in DOMAIN vuelos : \E d \in DocumentosRegistrados :
        /\ Cardinality(ActivasDe(v, d)) = 1
        /\ \E i \in DOMAIN vuelos[v].reservas :
              /\ objReserva[vuelos[v].reservas[i]].estado # "activa"
              /\ pasajeros[objReserva[vuelos[v].reservas[i]].pasajero].documento = d

\* C3: no two passengers of the registry have the same document, after any
\* agregar_pasajero calls and documento setter calls.
C3_DocumentosUnicos ==
    \A i \in DOMAIN pasajeros : \A j \in DOMAIN pasajeros :
        i # j => pasajeros[i].documento # pasajeros[j].documento

\* C4: crear_reserva for a registered passenger on a flight whose
\* capacidad_disponible is 0 raises the capacity error and leaves the history
\* as it was.
C4_SinCapacidad ==
    [][(/\ ultimo'.op = "crear_reserva"
        /\ buscar_pasajero_por_documento(ultimo'.args[2]) # 0
        /\ buscar_vuelo_por_numero(ultimo'.args[1]) # 0
        /\ capacidad_disponible(buscar_vuelo_por_numero(ultimo'.args[1])) = 0)
       => (ultimo'.exc = "SinCapacidad" /\ reservas' = reservas)]_vars

\* the capacity error raised for a passenger who holds no reservation on the
\* full flight
C4_Witness ==
    /\ Ultimo("crear_reserva", "SinCapacidad")
    /\ ActivasDe(buscar_vuelo_por_numero(ultimo.args[1]), ultimo.args[2]) = {}

\* the reservations of passenger p in the list of flight v, in list order
ReservasDelPar(v, p) ==
    SelectSeq(vuelos[v].reservas, LAMBDA r : objReserva[r].pasajero = p)

\* the latest reservation of passenger p on flight v is a cancelled one
UltimaCancelada(v, p) ==
    /\ ReservasDelPar(v, p) # <<>>
    /\ objReserva[ReservasDelPar(v, p)[Len(ReservasDelPar(v, p))]].estado = "cancelada"

\* this step is crear_reserva finding passenger p and flight v
PasoCrear(v, p) ==
    /\ ultimo'.op = "crear_reserva"
    /\ p # 0 /\ p = buscar_pasajero_por_documento(ultimo'.args[2])
    /\ v # 0 /\ v = buscar_vuelo_por_numero(ultimo'.args[1])

\* this step created one new active Reserva of passenger p on flight v, last
\* in the history, and every Reserva there was is still in the history
NuevaActiva(v, p) ==
    /\ ultimo'.exc = "ok"
    /\ Len(reservas') = Len(reservas) + 1
    /\ SubSeq(reservas', 1, Len(reservas)) = reservas
    /\ reservas'[Len(reservas')] \notin DOMAIN objReserva
    /\ objReserva'[reservas'[Len(reservas')]] = Reserva(v, p)
    /\ \A r \in DOMAIN objReserva : objReserva'[r] = objReserva[r]

\* C5, first half: while a reservation of the pair is active, crear_reserva
\* for the pair on a flight with free capacity raises the duplicate error.
C5_Duplicada(v, p) ==
    (/\ PasoCrear(v, p)
     /\ ActivasDe(v, pasajeros[p].documento) # {}
     /\ capacidad_disponible(v) > 0)
    => ultimo'.exc = "ReservaDuplicada"

\* C5 as stated: ... and once that reservation is cancelled, the next
\* crear_reserva for the pair succeeds with a new active reservation, the
\* cancelled one staying in the history.
C5_Original ==
    [][\A v \in DOMAIN vuelos : \A p \in DOMAIN pasajeros :
          /\ C5_Duplicada(v, p)
          /\ (PasoCrear(v, p) /\ UltimaCancelada(v, p)) => NuevaActiva(v, p)]_vars

\* C5 amended: ... once that reservation is cancelled, the next crear_reserva
\* for the pair succeeds if the flight has free capacity at that call.
C5_Amended ==
    [][\A v \in DOMAIN vuelos : \A p \in DOMAIN pasajeros :
          /\ C5_Duplicada(v, p)
          /\ (/\ PasoCrear(v, p)
              /\ UltimaCancelada(v, p)
              /\ capacidad_disponible(v) > 0) => NuevaActiva(v, p)]_vars

\* the pair booked again after its cancellation: the cancelled reservation
\* and, after it, the new active one
C5_Witness ==
    /\ Ultimo("crear_reserva", "ok")
    /\ \E v \in DOMAIN vuelos : \E p \in DOMAIN pasajeros :
          /\ Len(ReservasDelPar(v, p)) >= 2
          /\ ReservasDelPar(v, p)[Len(ReservasDelPar(v, p))] = reservas[Len(reservas)]
          /\ objReserva[ReservasDelPar(v, p)[Len(ReservasDelPar(v, p)) - 1]].estado
                = "cancelada"
          /\ ReservasDelPar(v, p)[Len(ReservasDelPar(v, p)) - 1] \in Rango(reservas)

\* C6: a Reserva starts active; cancelar takes it from active to cancelada
\* and completar from active to completada; on a Reserva that is not active
\* both raise the invalid-state error and change nothing, so a state other
\* than active never changes and a call succeeds only from active.
C6_Transiciones ==
    [][/\ \A r \in DOMAIN objReserva' :
             r \notin DOMAIN objReserva => objReserva'[r].estado = "activa"
       /\ \A r \in DOMAIN objReserva :
             /\ r \in DOMAIN objReserva'
             /\ objReserva[r].estado # "activa"
                   => objReserva'[r].estado = objReserva[r].estado
             /\ objReserva'[r].estado # objReserva[r].estado
                   => /\ ultimo'.args = <<r>>
                      /\ ultimo'.exc = "ok"
                      /\ \/ ultimo'.op = "cancelar"
                            /\ objReserva'[r].estado = "cancelada"
                         \/ ultimo'.op = "completar"
                            /\ objReserva'[r].estado = "completada"
             /\ (ultimo'.op \in {"cancelar", "completar"} /\ ultimo'.args = <<r>>)
                   => IF objReserva[r].estado = "activa"
                      THEN /\ ultimo'.exc = "ok"
                           /\ objReserva'[r].estado # "activa"
                      ELSE /\ ultimo'.exc = "EstadoInvalido"
                           /\ objReserva' = objReserva]_vars

\* completar refused on a cancelled Reserva
C6_Witness ==
    /\ Ultimo("completar", "EstadoInvalido")
    /\ objReserva[ultimo.args[1]].estado = "cancelada"

\* C7: agregar_pasajero with a document that a registered passenger has
\* raises the duplicate-document error whatever the names are, and the
\* passenger list is the same after the call.
C7_DocumentoDuplicado ==
    [][(ultimo'.op = "agregar_pasajero" /\ ExisteDocumento(ultimo'.args[3]))
       => (ultimo'.exc = "DocumentoDuplicado" /\ pasajeros' = pasajeros)]_vars

\* the duplicate-document error raised for a call whose names are not valid
C7_Witness ==
    /\ Ultimo("agregar_pasajero", "DocumentoDuplicado")
    /\ validar_nombre(ultimo.args[1]).exc # "ok"
    /\ validar_nombre(ultimo.args[2]).exc # "ok"

\* the lists of all the flights
ListasDeVuelos == [v \in DOMAIN vuelos |-> vuelos[v].reservas]

\* C8: a crear_reserva that raises leaves the history and the list of every
\* flight as they were; one that succeeds appends one new active Reserva to
\* the end of the list of its flight and to the end of the history, and
\* changes the list of no other flight.
C8_TodoONada ==
    [][ultimo'.op = "crear_reserva" =>
         IF ultimo'.exc # "ok"
         THEN /\ reservas' = reservas
              /\ ListasDeVuelos' = ListasDeVuelos
              /\ objReserva' = objReserva
         ELSE \E v \in DOMAIN vuelos : \E p \in DOMAIN pasajeros :
                 /\ PasoCrear(v, p)
                 /\ NuevaActiva(v, p)
                 /\ vuelos'[v].reservas =
                       Append(vuelos[v].reservas, reservas'[Len(reservas')])
                 /\ \A w \in DOMAIN vuelos \ {v} :
                       vuelos'[w].reservas = vuelos[w].reservas]_vars

\* a crear_reserva refused as a duplicate, on a registry that holds
\* reservations on both flights
C8_Witness ==
    /\ Ultimo("crear_reserva", "ReservaDuplicada")
    /\ \A v \in DOMAIN vuelos : vuelos[v].reservas # <<>>

\* C9: with serialized callers every flight keeps capacidad_disponible >= 0
\* and at most one active reservation per passenger document; callers that
\* interleave between the checks and the append reach a flight with more
\* active reservations than its capacity and with two active reservations of
\* one pair (C9_Witness).
C9_Serializado ==
    serializado =>
        \A v \in DOMAIN vuelos :
            /\ ActivasEn(v) <= vuelos[v].capacidad_total
            /\ \A d \in DocumentosRegistrados : Cardinality(ActivasDe(v, d)) <= 1

\* unserialized callers: a flight over its capacity holding two active
\* reservations of the same pair
C9_Witness ==
    /\ ~serializado
    /\ \E v \in DOMAIN vuelos :
          /\ ActivasEn(v) > vuelos[v].capacidad_total
          /\ capacidad_disponible(v) < 0
          /\ \E d \in DocumentosRegistrados : Cardinality(ActivasDe(v, d)) >= 2

Consultas ==
    {"obtener_pasajeros", "obtener_vuelos", "obtener_reservas", "vuelo.reservas",
     "buscar_pasajero_por_documento", "buscar_vuelo_por_numero",
     "vuelo.capacidad_disponible"}

\* the list the registry or the flight holds, of which the caller's is a copy
ListaInterna(origen) ==
    CASE origen = <<"pasajeros">> -> Referencias(pasajeros)
      [] origen = <<"vuelos">>    -> Referencias(vuelos)
      [] origen = <<"reservas">>  -> reservas
      [] origen[1] = "vuelo"      -> vuelos[origen[2]].reservas

\* C10: a query changes nothing of the registry and a list query returns the
\* elements of the list it reads; appending to, removing from or reordering a
\* returned list changes neither the collections of the registry, nor the
\* list of a flight, nor a capacidad_disponible.
C10_Copias ==
    [][/\ (ultimo'.op \in Consultas \/ cliente' # cliente)
          => /\ <<pasajeros, vuelos, reservas, objReserva>>'
                   = <<pasajeros, vuelos, reservas, objReserva>>
             /\ \A v \in DOMAIN vuelos :
                   capacidad_disponible(v)' = capacidad_disponible(v)
       /\ (cliente' # cliente /\ cliente'.mutaciones = 0)
          => cliente'.lista = ListaInterna(cliente'.origen)]_vars

\* the caller reversed the list a flight returned, and the list of the flight
\* is in its order
C10_Witness ==
    /\ cliente.origen[1] = "vuelo"
    /\ cliente.mutaciones > 0
    /\ Len(cliente.lista) >= 2
    /\ cliente.lista # vuelos[cliente.origen[2]].reservas
    /\ Rango(cliente.lista) = Rango(vuelos[cliente.origen[2]].reservas)
    /\ Len(cliente.lista) = Len(vuelos[cliente.origen[2]].reservas)

\* C11: GestorReservas() called when an instance exists returns that
\* instance, with the same passengers, flights, history and reservations: the
\* sample data are not seeded again and nothing is reset; the first call
\* creates the instance and seeds it.
C11_Singleton ==
    [][ultimo'.op = "GestorReservas" =>
         IF singleton.instance # 0
         THEN /\ singleton'.devuelto = singleton.instance
              /\ singleton'.instance = singleton.instance
              /\ <<pasajeros, vuelos, reservas, objReserva>>'
                    = <<pasajeros, vuelos, reservas, objReserva>>
         ELSE /\ singleton'.instance # 0
              /\ singleton'.devuelto = singleton'.instance
              /\ pasajeros' = SembrarPasajeros(pasajeros_data, <<>>)
              /\ vuelos' = SembrarVuelos
              /\ reservas' = <<>>]_vars

\* GestorReservas() returned on a registry that holds an added passenger and
\* a reservation
C11_Witness ==
    /\ Ultimo("GestorReservas", "ok")
    /\ singleton.devuelto = singleton.instance
    /\ Len(pasajeros) > Len(pasajeros_data)
    /\ reservas # <<>>

\* the setter calls
Setters == {"nombre.setter", "apellido.setter", "documento.setter"}

\* the field a setter call is to change, given the value the call would
\* store
TrasSetter(op, pas, valor) ==
    CASE op = "nombre.setter" -> [pas EXCEPT !.nombre = title(strip(valor))]
      [] op = "apellido.setter" -> [pas EXCEPT !.apellido = title(strip(valor))]
      [] op = "documento.setter" -> [pas EXCEPT !.documento = strip(valor)]

\* C12: a setter of a Pasajero given a value that its validation rejects
\* raises ValueError and leaves the three fields of the passenger, and every
\* other passenger, as they were; given a valid value it changes that field
\* alone, to the stripped value (title-cased for nombre and apellido).
C12_Setters ==
    [][ultimo'.op \in Setters =>
         LET p == ultimo'.args[1]
             valor == ultimo'.args[2]
             r == IF ultimo'.op = "documento.setter"
                  THEN validar_documento(valor)
                  ELSE validar_nombre(valor)
         IN  IF r.exc = "ok"
             THEN /\ ultimo'.exc = "ok"
                  /\ pasajeros' =
                        [pasajeros EXCEPT ![p] = TrasSetter(ultimo'.op, pasajeros[p], valor)]
             ELSE /\ ultimo'.exc = "ValueError"
                  /\ pasajeros' = pasajeros]_vars

\* a documento setter that raised, on a passenger whose nombre an earlier
\* setter call changed to a normalized value and whose other fields are the
\* seeded ones
C12_Witness ==
    /\ Ultimo("documento.setter", "ValueError")
    /\ LET pas == pasajeros[ultimo.args[1]]
       IN  /\ pas.nombre = <<"D", "e", " ", "L", "a">>
           /\ pas.apellido = pasajeros_data[ultimo.args[1]][2]
           /\ pas.documento = pasajeros_data[ultimo.args[1]][3]

\* the flights whose numero is n
VuelosDeNumero(n) == {v \in DOMAIN vuelos : vuelos[v].numero = n}

\* the first check that fails for crear_reserva(n, d), taking the checks in
\* the order passenger, flight, capacity, duplicate; "ok" if none fails
PrimerFallo(n, d) ==
    IF d \notin DocumentosRegistrados THEN "PasajeroNoEncontrado"
    ELSE IF VuelosDeNumero(n) = {} THEN "VueloNoEncontrado"
    ELSE LET v == CHOOSE w \in VuelosDeNumero(n) : TRUE
         IN  IF ActivasEn(v) >= vuelos[v].capacidad_total THEN "SinCapacidad"
             ELSE IF ActivasDe(v, d) # {} THEN "ReservaDuplicada"
             ELSE "ok"

\* C13: crear_reserva raises the error of the first check that fails in the
\* order passenger lookup, flight lookup, capacity, duplicate: with both the
\* passenger and the flight unknown it is the passenger not-found error, and
\* with the flight full and an active reservation of the passenger on it the
\* capacity error.
C13_OrdenDeErrores ==
    [][ultimo'.op = "crear_reserva" =>
         ultimo'.exc = PrimerFallo(ultimo'.args[1], ultimo'.args[2])]_vars

\* the capacity error raised for a passenger who holds an active reservation
\* on the full flight
C13_Witness ==
    /\ Ultimo("crear_reserva", "SinCapacidad")
    /\ ActivasDe(buscar_vuelo_por_numero(ultimo.args[1]), ultimo.args[2]) # {}

\* the passenger not-found error raised with the flight unknown too
C13_AmbosDesconocidos ==
    /\ Ultimo("crear_reserva", "PasajeroNoEncontrado")
    /\ VuelosDeNumero(ultimo.args[1]) = {}

\* the history restricted to the reservations of flight v, in history order
HistorialDe(v) == SelectSeq(reservas, LAMBDA r : objReserva[r].vuelo = v)

\* number of positions of the sequence lista that hold r
Apariciones(lista, r) == Cardinality({i \in DOMAIN lista : lista[i] = r})

\* the sequence a is the beginning of the sequence b
EsPrefijo(a, b) == Len(a) <= Len(b) /\ SubSeq(b, 1, Len(a)) = a

\* the history and the lists of the flights agree
C14_Acuerdo ==
    /\ \A i \in DOMAIN reservas : \A v \in DOMAIN vuelos :
          /\ Apariciones(reservas, reservas[i]) = 1
          /\ Apariciones(vuelos[v].reservas, reservas[i])
                = IF v = objReserva[reservas[i]].vuelo THEN 1 ELSE 0
    /\ \A v \in DOMAIN vuelos : vuelos[v].reservas = HistorialDe(v)

\* a step keeps what the history and the lists hold, in its place; cancelar
\* and completar change at most the estado of their Reserva
C14_SoloCrecen ==
    /\ EsPrefijo(reservas, reservas')
    /\ \A v \in DOMAIN vuelos : EsPrefijo(vuelos[v].reservas, vuelos'[v].reservas)
    /\ \A r \in DOMAIN objReserva :
          /\ r \in DOMAIN objReserva'
          /\ objReserva'[r].vuelo = objReserva[r].vuelo
          /\ objReserva'[r].pasajero = objReserva[r].pasajero
    /\ ultimo'.op \in {"cancelar", "completar"} =>
          /\ reservas' = reservas
          /\ ListasDeVuelos' = ListasDeVuelos
          /\ \A r \in DOMAIN objReserva :
                r # ultimo'.args[1] => objReserva'[r] = objReserva[r]

\* C14: after every crear_reserva, cancelar and completar calls, every Reserva of
\* the history is once in the history, once in the list of its own flight and
\* in the list of no other flight, the list of every flight is the history
\* restricted to that flight in the same order, and no call removes or moves
\* an element of the history or of a list: cancelar and completar change the
\* estado of their Reserva and nothing else.
C14_HistorialYListas == [][C14_Acuerdo' /\ C14_SoloCrecen]_vars

\* a cancelar that succeeded with three reservations in the history, two of
\* them on one flight and the third on another
C14_Witness ==
    /\ Ultimo("cancelar", "ok")
    /\ Len(reservas) = 3
    /\ \E v \in DOMAIN vuelos, w \in DOMAIN vuelos :
          /\ v # w
          /\ Len(vuelos[v].reservas) = 2
          /\ Len(vuelos[w].reservas) = 1
          /\ reservas[2] = vuelos[w].reservas[1]

\* vuelos.py: every counter is >= 0 and with the length of the list of its
\* flight makes the capacity the flight was created with
C15_Contador ==
    \A v \in DOMAIN vuelos_py.vuelos :
        /\ vuelos_py.vuelos[v].capacidad >= 0
        /\ vuelos_py.vuelos[v].capacidad + Len(vuelos_py.vuelos[v].reservas)
              = vuelos_py_data[v][2]

\* vuelos.py: a step that changes a list or a counter is a booking for the
\* passenger and the flight of the comboboxes, made with the counter > 0: one
\* new Reserva at the end of the list of the flight and of the global list,
\* the counter one less, the other flights as they were
C15_SoloReservando ==
    (\/ vuelos_py'.vuelos # vuelos_py.vuelos
     \/ vuelos_py'.reservas # vuelos_py.reservas) =>
        LET p == pasajero_py(vuelos_py.pasajero_combobox)
            v == vuelo_py(vuelos_py.vuelo_combobox)
        IN  /\ p # 0
            /\ v # 0
            /\ vuelos_py.vuelos[v].capacidad > 0
            /\ \E r \in {vuelos_py'.reservas[i] : i \in DOMAIN vuelos_py'.reservas} :
                  /\ r.pasajero = p
                  /\ r.vuelo = v
                  /\ vuelos_py'.reservas = Append(vuelos_py.reservas, r)
                  /\ vuelos_py'.vuelos[v].reservas = Append(vuelos_py.vuelos[v].reservas, r)
            /\ vuelos_py'.vuelos[v].capacidad = vuelos_py.vuelos[v].capacidad - 1
            /\ \A w \in DOMAIN vuelos_py.vuelos :
                  w # v => vuelos_py'.vuelos[w] = vuelos_py.vuelos[w]

\* vuelos.py: pressing the button (a step that keeps the texts of the
\* comboboxes) with a listed passenger and a listed flight whose counter is
\* > 0 books, whatever reservations the passenger has on the flight
C15_NadaLoImpide ==
    (/\ vuelos_py' # vuelos_py
     /\ vuelos_py'.pasajero_combobox = vuelos_py.pasajero_combobox
     /\ vuelos_py'.vuelo_combobox = vuelos_py.vuelo_combobox
     /\ pasajero_py(vuelos_py.pasajero_combobox) # 0
     /\ vuelo_py(vuelos_py.vuelo_combobox) # 0
     /\ vuelos_py.vuelos[vuelo_py(vuelos_py.vuelo_combobox)].capacidad > 0) =>
        Len(vuelos_py'.reservas) = Len(vuelos_py.reservas) + 1

\* C15: in vuelos.py, after every hacer_reserva the counter capacidad of every
\* flight is >= 0 and counter + length of the list of the flight is the
\* capacity the flight started with; a booking is made only with the counter
\* > 0 and is appended to the list of the flight and to the global list; and
\* a passenger who has reservations on a flight is booked on it again.
C15_VuelosPy == [][C15_Contador' /\ C15_SoloReservando /\ C15_NadaLoImpide]_vars

\* vuelos.py: a flight whose counter reached 0 with the same passenger in
\* every reservation of its list, after a press that was refused
C15_Witness ==
    /\ vuelos_py.mensaje = <<"No hay capacidad disponible">>
    /\ \E v \in DOMAIN vuelos_py.vuelos :
          /\ vuelos_py.vuelos[v].capacidad = 0
          /\ Len(vuelos_py.vuelos[v].reservas) >= 2
          /\ \A i \in DOMAIN vuelos_py.vuelos[v].reservas :
                vuelos_py.vuelos[v].reservas[i].pasajero
                   = vuelos_py.vuelos[v].reservas[1].pasajero
====
